---- MODULE Spec2Model ----
(***************************************************************************)
(* Query execution and pagination state machine of dune-agent:             *)
(*   run_query                      (src/utils/run_query.py)               *)
(*   get_latest_result_by_query_id  (src/main.py)                          *)
(* Every HTTP exchange (the request plus the handling of its answer up to  *)
(* the next request, return or raise) is one action.  The server is the    *)
(* environment: its answers are drawn from small sets.  The rows it sends  *)
(* are numbered in the order sent, so that every row is distinct and a     *)
(* dropped, repeated or reordered row shows in the returned sequence.      *)
(***************************************************************************)
EXTENDS Integers, Sequences, FiniteSets, TLC

VARIABLES
  \* ---- get_latest_result_by_query_id locals (src/main.py) ----
  a_pc,              \* off (run_query was called directly), fetch, in_run_query, returned, raised
  a_limit,
  a_offset,
  a_all_results,
  via,               \* the branch that called run_query last: none, 404, no_timestamp, stale
  a_outcome,         \* what the accessor returned or raised
  \* ---- run_query locals (src/utils/run_query.py) ----
  pc,                \* idle, submit, poll, fetch, returned, raised
  retry_count,
  last_error,
  limit,
  offset,
  all_results,
  has_more_results,
  execution_id,
  poll_count,
  outcome,           \* what run_query returned or raised
  \* ---- server and clock ----
  served,            \* number of rows the server has sent so far
  slowServer,        \* whether executions may be observed EXECUTING or PENDING
  \* ---- observation of the accessor's traffic ----
  a_fetches,         \* existing-results requests of this call
  runnerCalls,       \* calls of run_query made by this call
  cached,            \* the rows of every existing-results page received, in order
  data,              \* the existing-results body received and not yet handled
  \* ---- observation of run_query's traffic ----
  submissions,       \* execute submissions of this run_query call
  checks,            \* status requests sent for the current execution
  nonTerminal,       \* EXECUTING/PENDING answers received for the current execution
  endState,          \* the state answered that ended the polling of the current execution
  pollSleeps,        \* sleeps of the poll loop for the current execution
  pollSlept,         \* seconds slept by the poll loop for the current execution
  retrySleeps,       \* sleeps of the retry handlers of this run_query call
  attemptErr,        \* the exception raised inside the most recent failed attempt
  lastCheck,         \* the handle the last status request of the current execution named
  lastFetch,         \* the last results request of the current execution and its answer
  attemptBase,       \* rows the server had sent when the current execution was submitted
  initialOffset,     \* the offset this run_query call started with
  sustainedEmpty,    \* every answer so far: an execution id, COMPLETED, a page of zero rows
  \* ---- module load and get_query_ids (src/utils/config.py, src/main.py,
  \*      src/utils/selenium_utils.py) ----
  t_pc,              \* off, load_config, check_run_query, check_main, serving, open_page,
                     \* links, got_data, load_failed, tool_returned, tool_raised
  environ,           \* the DUNE_API_KEY variable of the process environment
  DUNE_API_KEY,      \* utils.config.DUNE_API_KEY once the module is loaded
  driver,            \* SeleniumUtils.driver
  scanned,           \* title elements of the result table handled so far
  queries_ids,       \* the list get_queries_ids builds and returns
  failure,           \* what failed in the collaborator: none, driver, scrape
  t_outcome,         \* what module load raised, or what get_query_ids returned or raised
  \* ---- the parameters of a results request (run_query.py, main.py) ----
  p_pc,              \* off, call, sent_by_run_query, sent_by_accessor
  p_args,            \* the optional arguments the caller passed
  p_params           \* the params dict of the first results request: absent is None

accVars == <<a_pc, a_limit, a_offset, a_all_results, via, a_outcome>>
accObs == <<a_fetches, runnerCalls, cached, data>>
rqVars == <<pc, retry_count, last_error, limit, offset, all_results, has_more_results,
            execution_id, poll_count, outcome>>
rqObs == <<submissions, checks, nonTerminal, endState, pollSleeps, pollSlept, retrySleeps,
           attemptErr, lastCheck, lastFetch, attemptBase, initialOffset, sustainedEmpty>>
paramVars == <<p_pc, p_args, p_params>>
toolVars == <<t_pc, environ, DUNE_API_KEY, driver, scanned, queries_ids, failure, t_outcome>>
vars == <<accVars, rqVars, served, slowServer, accObs, rqObs, toolVars, paramVars>>

\* ---------------------------------------------------------------- constants
MAX_RETRIES == 30
POLL_INTERVAL == 5
MAX_POLL_ATTEMPTS == 60
STALE_DATA_THRESHOLD == 8
RunnerDefaultLimit == 1000
RunnerDefaultOffset == 0
AccessorDefaultLimit == 100
AccessorDefaultOffset == 0

\* ---------------------------------------------------------------- bounds
MaxRows == 3          \* rows the server sends during one call
MaxPageLen == 2       \* rows in one page
MaxRunnerCalls == 2   \* run_query calls the server provokes during one accessor call
MaxLinks == 3         \* title elements in the result table of one search

\* Python's None for an optional value v is <<>>, a present value is <<v>>;
\* str(None), as it appears in a formatted message, is "None"
None == <<>>
Some(v) == <<v>>
NoneStr == "None"

\* ---------------------------------------------------------------- values
\* Python's range(a, b) as a sequence: the rows a+1 .. b in order
RowsFrom(a, k) == [i \in 1..k |-> a + i]

Err(kind, msg) == [kind |-> kind, msg |-> msg]
NoError == Err(NoneStr, <<>>)

\* ERROR_MESSAGES whose execution_failed message leaves the state out
ERROR_MESSAGES_StateLeftOut(key, arg) ==
  CASE key = "execution_failed" -> <<"Query execution failed with state: ">>
    [] key = "timeout"          -> <<"Query execution timed out">>
    [] key = "no_execution_id"  -> <<"Failed to start query execution">>
    [] key = "no_data"          -> <<"Query completed but no data returned">>
    [] key = "unknown_state"    -> <<"Unknown query state: ", arg>>
    [] key = "no_api_key"       -> <<"DUNE_API_KEY environment variable is not set">>

\* utils/config.py ERROR_MESSAGES, a message being the sequence of its parts
ERROR_MESSAGES(key, arg) ==
  CASE key = "execution_failed" -> <<"Query execution failed with state: ", arg>>
    [] key = "timeout"          -> <<"Query execution timed out">>
    [] key = "no_execution_id"  -> <<"Failed to start query execution">>
    [] key = "no_data"          -> <<"Query completed but no data returned">>
    [] key = "unknown_state"    -> <<"Unknown query state: ", arg>>
    [] key = "no_api_key"       -> <<"DUNE_API_KEY environment variable is not set">>

COMPLETED == "QUERY_STATE_COMPLETED"
\* FailureStates taking in a state outside the six
FailureStates_WithExpired ==
  {"QUERY_STATE_FAILED", "QUERY_STATE_CANCELLED", "QUERY_STATE_ERROR", "QUERY_STATE_EXPIRED"}

FailureStates == {"QUERY_STATE_FAILED", "QUERY_STATE_CANCELLED", "QUERY_STATE_ERROR"}
WaitingStates == {"QUERY_STATE_EXECUTING", "QUERY_STATE_PENDING"}
\* a state string outside the six, and a status body without "state"
OtherStates == {"QUERY_STATE_EXPIRED", NoneStr}
States == {COMPLETED} \cup FailureStates \cup WaitingStates \cup OtherStates

\* what an HTTP exchange can raise instead of giving a body
HTTPError == Err("HTTPError", <<"Server error '500'">>)
ValueError == Err("ValueError", <<"Expecting value">>)
Raisers == {HTTPError, ValueError}

RetriedKinds == {"QueryExecutionError", "QueryTimeoutError", "NoDataError"}

NextOffsets == {None} \cup {Some(o) : o \in 1..MaxPageLen}
\* the (limit, offset) arguments of the calls explored
Calls == {<<None, None>>, <<Some(2), Some(1)>>}

NoFetch == [eid |-> 0, offset |-> 0, answered |-> FALSE, n |-> 0, next |-> None]

Returned(rows) == [rows |-> rows, err |-> NoError]
Raised(e) == [rows |-> <<>>, err |-> e]
NoOutcome == Returned(<<>>)

\* ---------------------------------------------------------------- run_query
\* lines 53-58: the defaults of limit and offset
Default(arg, dflt) == IF arg = None THEN dflt ELSE arg[1]

\* HasMore with the page-length test lost
HasMore_CursorOnly(result_rows, next_offset, lim) ==
  ~(next_offset = None)

\* lines 118-122: another page is requested after a non-empty page
HasMore(result_rows, next_offset, lim) ==
  ~(next_offset = None \/ Len(result_rows) < lim)

\* RetryAgain off by one
RetryAgain_OffByOne(count) == count <= MAX_RETRIES

\* line 63: the condition of the retry loop
RetryAgain(count) == count < MAX_RETRIES

\* PollAgain off by one
PollAgain_OffByOne(count) == count <= MAX_POLL_ATTEMPTS

\* line 80: the condition of the poll loop
PollAgain(count) == count < MAX_POLL_ATTEMPTS

\* PollSleep that does not sleep
PollSleep_Skipped == UNCHANGED <<pollSleeps, pollSlept>>

\* line 135: time.sleep(POLL_INTERVAL) in the poll loop
PollSleep ==
  /\ pollSleeps' = pollSleeps + 1
  /\ pollSlept' = pollSlept + POLL_INTERVAL

\* lines 162-164: after the retry loop
AfterLoop(err) ==
  IF err # NoError
    THEN pc' = "raised" /\ outcome' = Raised(err)
    ELSE pc' = "returned" /\ outcome' = Returned(<<>>)

\* Retry going back to the poll loop of the execution in hand
Retry_ResumesPolling(e, stored) ==
  /\ attemptErr' = e
  /\ last_error' = stored
  /\ retry_count' = retry_count + 1
  /\ IF RetryAgain(retry_count + 1)
       THEN /\ retrySleeps' = retrySleeps + 1
            /\ pc' = "poll"
            /\ outcome' = outcome
       ELSE /\ retrySleeps' = retrySleeps
            /\ AfterLoop(stored)

\* Retry sleeping after the last attempt too
Retry_AlwaysSleeps(e, stored) ==
  /\ attemptErr' = e
  /\ last_error' = stored
  /\ retry_count' = retry_count + 1
  /\ retrySleeps' = retrySleeps + 1
  /\ IF RetryAgain(retry_count + 1)
       THEN /\ pc' = "submit"
            /\ outcome' = outcome
       ELSE AfterLoop(stored)

\* Retry keeping the exception caught as last_error, whatever the clause assigns
Retry_StoresCaught(e, stored) ==
  /\ attemptErr' = e
  /\ last_error' = e
  /\ retry_count' = retry_count + 1
  /\ IF RetryAgain(retry_count + 1)
       THEN /\ retrySleeps' = retrySleeps + 1
            /\ pc' = "submit"
            /\ outcome' = outcome
       ELSE /\ retrySleeps' = retrySleeps
            /\ AfterLoop(e)

\* lines 143-149 and 151-157: an except clause that counts the attempt; e is the
\* exception caught and stored what the clause assigns to last_error
Retry(e, stored) ==
  /\ attemptErr' = e
  /\ last_error' = stored
  /\ retry_count' = retry_count + 1
  /\ IF RetryAgain(retry_count + 1)
       THEN /\ retrySleeps' = retrySleeps + 1
            /\ pc' = "submit"
            /\ outcome' = outcome
       ELSE /\ retrySleeps' = retrySleeps
            /\ AfterLoop(stored)

\* Raise with every exception outside the retried kinds handled as a transport error
Raise_AllRetried(e) ==
  IF e.kind \in RetriedKinds
    THEN Retry(e, e)
    ELSE Retry(e, Err("QueryExecutionError", <<"HTTP error running query: ">> \o e.msg))

\* lines 143-160: the except clauses, by the class of the exception e
Raise(e) ==
  IF e.kind \in RetriedKinds
    THEN Retry(e, e)
    ELSE IF e.kind = "HTTPError"
      THEN Retry(e, Err("QueryExecutionError", <<"HTTP error running query: ">> \o e.msg))
      ELSE /\ attemptErr' = e
           /\ pc' = "raised"
           /\ outcome' = Raised(Err("QueryExecutionError",
                                    <<"Error processing query: ">> \o e.msg))
           /\ UNCHANGED <<retry_count, last_error, retrySleeps>>

\* lines 63-78: the execute submission of one attempt
Submit ==
  /\ pc = "submit"
  /\ submissions' = submissions + 1
  /\ checks' = 0 /\ nonTerminal' = 0 /\ pollSleeps' = 0 /\ pollSlept' = 0
  /\ endState' = ""
  /\ lastCheck' = 0
  /\ lastFetch' = NoFetch
  /\ attemptBase' = served
  /\ UNCHANGED <<limit, offset, all_results, has_more_results, initialOffset>>
  /\ UNCHANGED <<accVars, accObs, served, slowServer, toolVars, paramVars>>
  /\ \/ \E e \in Raisers :                              \* lines 68-70 raise
          /\ Raise(e)
          /\ sustainedEmpty' = FALSE
          /\ UNCHANGED <<execution_id, poll_count>>
     \/ /\ execution_id' = 0                            \* line 71: no execution_id
        /\ Raise(Err("QueryExecutionError", ERROR_MESSAGES("no_execution_id", NoneStr)))
        /\ sustainedEmpty' = FALSE                        \* lines 73-74
        /\ UNCHANGED poll_count
     \/ /\ execution_id' = submissions + 1              \* line 71: a new handle
        /\ poll_count' = 0                              \* line 78
        /\ pc' = "poll"
        /\ UNCHANGED <<retry_count, last_error, outcome, retrySleeps, attemptErr,
                       sustainedEmpty>>

\* lines 80-141: one status request and the branch taken on its answer
CheckStatus ==
  /\ pc = "poll"
  /\ checks' = checks + 1
  /\ lastCheck' = execution_id                          \* line 77: status_url
  /\ UNCHANGED <<limit, offset, all_results, has_more_results, execution_id,
                 submissions, lastFetch, attemptBase, initialOffset>>
  /\ UNCHANGED <<accVars, accObs, served, slowServer, toolVars, paramVars>>
  /\ \/ \E e \in Raisers :                              \* lines 81-83 raise
          /\ Raise(e)
          /\ sustainedEmpty' = FALSE
          /\ UNCHANGED <<poll_count, nonTerminal, endState, pollSleeps, pollSlept>>
     \/ \E state \in States :
          /\ state \in WaitingStates => slowServer
          /\ endState' = IF state \in WaitingStates THEN endState ELSE state
          /\ sustainedEmpty' = (sustainedEmpty /\ state = COMPLETED)
          /\ IF state = COMPLETED
               THEN /\ IF has_more_results             \* line 88
                         THEN pc' = "fetch" /\ outcome' = outcome
                         ELSE pc' = "returned" /\ outcome' = Returned(all_results)
                    /\ UNCHANGED <<retry_count, last_error, retrySleeps, attemptErr,
                                   poll_count, nonTerminal, pollSleeps, pollSlept>>
             ELSE IF state \in FailureStates
               THEN /\ Raise(Err("QueryExecutionError",
                                 ERROR_MESSAGES("execution_failed", state)))
                    /\ UNCHANGED <<poll_count, nonTerminal, pollSleeps, pollSlept>>
             ELSE IF state \in WaitingStates
               THEN /\ PollSleep                          \* line 135
                    /\ poll_count' = poll_count + 1      \* line 136
                    /\ nonTerminal' = nonTerminal + 1
                    /\ IF PollAgain(poll_count + 1)
                         THEN UNCHANGED <<pc, retry_count, last_error, outcome,
                                          retrySleeps, attemptErr>>
                         ELSE Raise(Err("QueryTimeoutError",      \* lines 140-141
                                        ERROR_MESSAGES("timeout", NoneStr)))
             ELSE /\ Raise(Err("QueryExecutionError",
                               ERROR_MESSAGES("unknown_state", state)))
                  /\ UNCHANGED <<poll_count, nonTerminal, pollSleeps, pollSlept>>

\* lines 88-129: one results request and the handling of its answer
FetchResults ==
  /\ pc = "fetch"
  /\ UNCHANGED <<limit, execution_id, poll_count, submissions, checks, nonTerminal,
                 endState, pollSleeps, pollSlept, lastCheck, attemptBase, initialOffset>>
  /\ UNCHANGED <<accVars, accObs, slowServer, toolVars, paramVars>>
  /\ \/ \E e \in Raisers :                              \* lines 109-111 raise
          /\ Raise(e)
          /\ sustainedEmpty' = FALSE
          /\ lastFetch' = [eid |-> execution_id, offset |-> offset, answered |-> FALSE,
                           n |-> 0, next |-> None]
          /\ UNCHANGED <<offset, all_results, has_more_results, served>>
     \/ \E k \in 0..MaxPageLen, next_offset \in NextOffsets :
          LET result_rows == RowsFrom(served, k) IN
          /\ served + k <= MaxRows
          /\ served' = served + k
          /\ sustainedEmpty' = (sustainedEmpty /\ k = 0)
          /\ lastFetch' = [eid |-> execution_id, offset |-> offset, answered |-> TRUE,
                           n |-> k, next |-> next_offset]
          /\ IF result_rows # <<>>
               THEN /\ all_results' = all_results \o result_rows      \* line 115
                    /\ IF HasMore(result_rows, next_offset, limit)
                         THEN /\ offset' = next_offset[1]              \* line 122
                              /\ UNCHANGED <<pc, has_more_results, outcome>>
                         ELSE /\ has_more_results' = FALSE             \* line 120
                              /\ pc' = "returned"                      \* line 129
                              /\ outcome' = Returned(all_results')
                              /\ UNCHANGED offset
                    /\ UNCHANGED <<retry_count, last_error, retrySleeps, attemptErr>>
               ELSE /\ has_more_results' = FALSE                       \* line 125
                    /\ UNCHANGED <<offset, all_results>>
                    /\ IF all_results = <<>>                           \* lines 126-127
                         THEN Raise(Err("NoDataError", ERROR_MESSAGES("no_data", NoneStr)))
                         ELSE /\ pc' = "returned"                      \* line 129
                              /\ outcome' = Returned(all_results)
                              /\ UNCHANGED <<retry_count, last_error, retrySleeps,
                                             attemptErr>>

\* lines 49-61: the locals of run_query(query_id, limit=limArg, offset=offArg) at
\* the head of its retry loop, and the observation of a call that has sent nothing
RunQueryEntry(limArg, offArg) ==
  [retry_count |-> 0,
   last_error |-> NoError,
   limit |-> Default(limArg, RunnerDefaultLimit),
   offset |-> Default(offArg, RunnerDefaultOffset),
   all_results |-> <<>>,
   has_more_results |-> TRUE]

\* CallRunQuery handing the accessor's limit and offset on to run_query
CallRunQuery_PassesPaging ==
  LET e == RunQueryEntry(Some(a_limit), Some(a_offset)) IN
  /\ pc' = "submit"
  /\ retry_count' = e.retry_count
  /\ last_error' = e.last_error
  /\ limit' = e.limit
  /\ offset' = e.offset
  /\ all_results' = e.all_results
  /\ has_more_results' = e.has_more_results
  /\ execution_id' = 0
  /\ poll_count' = 0
  /\ outcome' = NoOutcome
  /\ submissions' = 0 /\ checks' = 0 /\ nonTerminal' = 0 /\ pollSleeps' = 0
  /\ pollSlept' = 0 /\ retrySleeps' = 0 /\ endState' = ""
  /\ attemptErr' = NoError
  /\ lastCheck' = 0
  /\ lastFetch' = NoFetch
  /\ attemptBase' = served
  /\ initialOffset' = e.offset
  /\ sustainedEmpty' = TRUE
  /\ runnerCalls' = runnerCalls + 1

\* a call of run_query from the accessor: main.py lines 152, 162, 171 pass query_id only
CallRunQuery ==
  LET e == RunQueryEntry(None, None) IN
  /\ pc' = "submit"
  /\ retry_count' = e.retry_count
  /\ last_error' = e.last_error
  /\ limit' = e.limit
  /\ offset' = e.offset
  /\ all_results' = e.all_results
  /\ has_more_results' = e.has_more_results
  /\ execution_id' = 0
  /\ poll_count' = 0
  /\ outcome' = NoOutcome
  /\ submissions' = 0 /\ checks' = 0 /\ nonTerminal' = 0 /\ pollSleeps' = 0
  /\ pollSlept' = 0 /\ retrySleeps' = 0 /\ endState' = ""
  /\ attemptErr' = NoError
  /\ lastCheck' = 0
  /\ lastFetch' = NoFetch
  /\ attemptBase' = served
  /\ initialOffset' = e.offset
  /\ sustainedEmpty' = TRUE
  /\ runnerCalls' = runnerCalls + 1

\* ---------------------------------------------------------------- accessor
\* execution_started_at of a results body: absent, "", a timestamp without the
\* fractional seconds the format string demands, or a well-formed timestamp (minutes)
TsMissing == [form |-> "missing", t |-> 0]
TsEmpty == [form |-> "empty", t |-> 0]
TsNoFraction == [form |-> "no_fraction", t |-> 0]
TsAt(t) == [form |-> "ok", t |-> t]
Timestamps == {TsMissing, TsEmpty, TsNoFraction} \cup {TsAt(t) : t \in {0, 120, 121}}
\* datetime.utcnow() at line 166, in minutes
Nows == {600, 601}

Hours(h) == h * 60

NoData == [rows |-> <<>>, ts |-> TsMissing, now |-> 0, next |-> None]

\* NoTimestamp testing for the empty string only
NoTimestamp_EmptyOnly(ts) == ts.form = "empty"

\* main.py line 160: not execution_started_at_str
NoTimestamp(ts) == ts.form \in {"missing", "empty"}

\* main.py line 165: datetime.strptime(s, "%Y-%m-%dT%H:%M:%S.%fZ") succeeds
Parses(ts) == ts.form = "ok"

\* IsStale with a strict comparison of the age
IsStale_StrictAge(result_data, execution_started_at, now) ==
  result_data = <<>> \/ now - execution_started_at > Hours(STALE_DATA_THRESHOLD)

\* IsStale without the test for an empty page
IsStale_AgeOnly(result_data, execution_started_at, now) ==
  now - execution_started_at >= Hours(STALE_DATA_THRESHOLD)

\* main.py lines 166-169: not result_data or delta >= timedelta(hours=STALE_DATA_THRESHOLD)
IsStale(result_data, execution_started_at, now) ==
  result_data = <<>> \/ now - execution_started_at >= Hours(STALE_DATA_THRESHOLD)

\* AccHasMore with the page-length test lost
AccHasMore_CursorOnly(result_data, next_offset, lim) ==
  ~(next_offset = None)

\* main.py lines 177-181: another page is requested
AccHasMore(result_data, next_offset, lim) ==
  ~(next_offset = None \/ Len(result_data) < lim)

\* main.py lines 186-189: the except clauses of the accessor
AccRaise(e) ==
  /\ a_pc' = "raised"
  /\ a_outcome' = Raised(Err("QueryExecutionError",
        (IF e.kind = "HTTPError" THEN <<"HTTP error fetching query results: ">>
                                 ELSE <<"Error processing query results: ">>) \o e.msg))

\* main.py lines 129-154: one existing-results request and its answer
GetResults ==
  /\ a_pc = "fetch"
  /\ a_fetches' = a_fetches + 1
  /\ UNCHANGED <<a_limit, a_offset, a_all_results, slowServer, toolVars, paramVars>>
  /\ \/ /\ runnerCalls < MaxRunnerCalls                  \* lines 151-153: status 404
        /\ via' = "404"
        /\ a_pc' = "in_run_query"
        /\ CallRunQuery
        /\ UNCHANGED <<a_outcome, served, cached, data>>
     \/ \E e \in Raisers :                               \* lines 150, 154 raise
          /\ AccRaise(e)
          /\ UNCHANGED <<via, served, cached, data, runnerCalls, rqVars, rqObs>>
     \/ \E k \in 0..MaxPageLen, ts \in Timestamps, next_offset \in NextOffsets,
           now \in Nows :                                \* line 154: a body
          /\ served + k <= MaxRows
          /\ served' = served + k
          /\ cached' = cached \o RowsFrom(served, k)
          /\ data' = [rows |-> RowsFrom(served, k), ts |-> ts, now |-> now,
                      next |-> next_offset]
          /\ a_pc' = "page"
          /\ UNCHANGED <<via, a_outcome, runnerCalls, rqVars, rqObs>>

\* main.py lines 156-184: the handling of the body received
HandlePage ==
  /\ a_pc = "page"
  /\ data' = NoData
  /\ UNCHANGED <<a_limit, slowServer, served, cached, a_fetches, toolVars, paramVars>>
  /\ IF NoTimestamp(data.ts)                             \* lines 160-162
       THEN /\ runnerCalls < MaxRunnerCalls
            /\ via' = "no_timestamp"
            /\ a_pc' = "in_run_query"
            /\ CallRunQuery
            /\ UNCHANGED <<a_offset, a_all_results, a_outcome>>
     ELSE IF ~Parses(data.ts)                            \* line 165 raises ValueError
       THEN /\ AccRaise(Err("ValueError", <<"time data does not match format">>))
            /\ UNCHANGED <<a_offset, a_all_results, via, runnerCalls, rqVars, rqObs>>
     ELSE IF IsStale(data.rows, data.ts.t, data.now)     \* lines 169-171
       THEN /\ runnerCalls < MaxRunnerCalls
            /\ via' = "stale"
            /\ a_pc' = "in_run_query"
            /\ CallRunQuery
            /\ UNCHANGED <<a_offset, a_all_results, a_outcome>>
     ELSE /\ a_all_results' = a_all_results \o data.rows             \* line 174
          /\ IF AccHasMore(data.rows, data.next, a_limit)
               THEN /\ a_offset' = data.next[1]                      \* line 181
                    /\ a_pc' = "fetch"
                    /\ UNCHANGED a_outcome
               ELSE /\ a_pc' = "returned"                            \* line 184
                    /\ a_outcome' = Returned(a_all_results')
                    /\ UNCHANGED a_offset
          /\ UNCHANGED <<via, runnerCalls, rqVars, rqObs>>

\* AfterRunQuery adding what run_query returned to the rows accumulated
AfterRunQuery_Extends ==
  /\ a_pc = "in_run_query"
  /\ pc \in {"returned", "raised"}
  /\ IF pc = "raised"
       THEN AccRaise(outcome.err)                        \* lines 188-189
       ELSE IF via = "404"
         THEN a_pc' = "fetch" /\ a_outcome' = a_outcome  \* lines 152-153: continue
         ELSE a_pc' = "returned" /\ a_outcome' = Returned(a_all_results \o outcome.rows) \* lines 162, 171
  /\ outcome' = NoOutcome
  /\ pc' = "idle"
  /\ retry_count' = 0 /\ last_error' = NoError /\ limit' = 0 /\ offset' = 0
  /\ all_results' = <<>> /\ has_more_results' = TRUE
  /\ execution_id' = 0 /\ poll_count' = 0
  /\ submissions' = 0 /\ checks' = 0 /\ nonTerminal' = 0 /\ pollSleeps' = 0
  /\ pollSlept' = 0 /\ retrySleeps' = 0 /\ endState' = ""
  /\ attemptErr' = NoError /\ lastFetch' = NoFetch /\ sustainedEmpty' = TRUE
  /\ attemptBase' = served /\ initialOffset' = 0 /\ lastCheck' = 0
  /\ UNCHANGED <<a_limit, a_offset, a_all_results, via, served, slowServer, accObs,
                 toolVars, paramVars>>

\* main.py lines 152-153, 162, 171, 188-189: run_query has returned or raised; its
\* frame is gone, what it returned or raised is all that is left of the call
AfterRunQuery ==
  /\ a_pc = "in_run_query"
  /\ pc \in {"returned", "raised"}
  /\ IF pc = "raised"
       THEN AccRaise(outcome.err)                        \* lines 188-189
       ELSE IF via = "404"
         THEN a_pc' = "fetch" /\ a_outcome' = a_outcome  \* lines 152-153: continue
         ELSE a_pc' = "returned" /\ a_outcome' = outcome \* lines 162, 171
  /\ outcome' = NoOutcome
  /\ pc' = "idle"
  /\ retry_count' = 0 /\ last_error' = NoError /\ limit' = 0 /\ offset' = 0
  /\ all_results' = <<>> /\ has_more_results' = TRUE
  /\ execution_id' = 0 /\ poll_count' = 0
  /\ submissions' = 0 /\ checks' = 0 /\ nonTerminal' = 0 /\ pollSleeps' = 0
  /\ pollSlept' = 0 /\ retrySleeps' = 0 /\ endState' = ""
  /\ attemptErr' = NoError /\ lastFetch' = NoFetch /\ sustainedEmpty' = TRUE
  /\ attemptBase' = served /\ initialOffset' = 0 /\ lastCheck' = 0
  /\ UNCHANGED <<a_limit, a_offset, a_all_results, via, served, slowServer, accObs,
                 toolVars, paramVars>>

\* ---------------------------------------------------------------- module load
\* os.getenv(name, default): the variable's value, the default when it is not set
getenv(value, dflt) == IF value = None THEN Some(dflt) ELSE value

\* config.py line 10: the second argument of os.getenv
DefaultKey == "123"

\* the values of the environment variable explored: not set, set empty, set
Environs == {None, Some(""), Some("key")}

\* Python's truth test of an optional string: not v
Falsy(v) == v = None \/ v = Some("")

\* config.py line 12: the header every request carries
HEADERS == [X_Dune_API_Key |-> DUNE_API_KEY]

\* config.py lines 7-12, executed by the first import of utils.config
LoadConfig ==
  /\ t_pc = "load_config"
  /\ DUNE_API_KEY' = getenv(environ, DefaultKey)
  /\ t_pc' = "check_run_query"
  /\ UNCHANGED <<environ, driver, scanned, queries_ids, failure, t_outcome>>
  /\ UNCHANGED <<accVars, rqVars, served, slowServer, accObs, rqObs, paramVars>>

\* run_query.py lines 13-14 and main.py lines 36-37: if not DUNE_API_KEY: raise
KeyCheck(next) ==
  IF Falsy(DUNE_API_KEY)
    THEN /\ t_pc' = "load_failed"
         /\ t_outcome' = Raised(Err("DuneAPIKeyError", ERROR_MESSAGES("no_api_key", NoneStr)))
    ELSE /\ t_pc' = next
         /\ UNCHANGED t_outcome

\* run_query.py lines 13-14, executed when main.py line 8 imports utils.run_query
CheckKeyRunQuery ==
  /\ t_pc = "check_run_query"
  /\ KeyCheck("check_main")
  /\ UNCHANGED <<environ, DUNE_API_KEY, driver, scanned, queries_ids, failure>>
  /\ UNCHANGED <<accVars, rqVars, served, slowServer, accObs, rqObs, paramVars>>

\* main.py lines 36-37
CheckKeyMain ==
  /\ t_pc = "check_main"
  /\ KeyCheck("serving")
  /\ UNCHANGED <<environ, DUNE_API_KEY, driver, scanned, queries_ids, failure>>
  /\ UNCHANGED <<accVars, rqVars, served, slowServer, accObs, rqObs, paramVars>>

\* ---------------------------------------------------------------- get_query_ids
WebDriverException == Err("WebDriverException", <<"chromedriver unexpectedly exited">>)
AttributeError == Err("AttributeError", <<"'dict' object has no attribute 'split'">>)

QueryIds == {1, 2}
\* a title element of the result table: its ancestor link has gone stale, has no
\* href, or has an href that is or is not under https://dune.com/queries, ending
\* in the query id alone or in the id followed by a further path segment
Links ==
  {[kind |-> "stale", dune |-> FALSE, id |-> 1, segment |-> FALSE],
   [kind |-> "no_href", dune |-> FALSE, id |-> 1, segment |-> FALSE]}
  \cup [kind : {"href"}, dune : BOOLEAN, id : QueryIds, segment : BOOLEAN]

\* selenium_utils.py lines 131-137: whether the element adds an entry, that is the
\* link is found, its href starts with the queries prefix and int() takes what
\* follows "queries/"
Appends(link) == link.kind = "href" /\ link.dune /\ ~link.segment

\* selenium_utils.py line 137: the entry appended, a dict
Entry(link) == [type |-> "dict", query_id |-> link.id, title |-> "title"]

\* main.py line 71: SeleniumUtils(), whose __init__ runs set_driver
\* (selenium_utils.py lines 17-92), outside the try of get_query_ids
set_driver ==
  /\ t_pc = "serving"
  /\ scanned' = 0
  /\ queries_ids' = <<>>
  /\ \/ /\ driver' = Some("chrome")                    \* lines 82-86
        /\ t_pc' = "open_page"
        /\ UNCHANGED <<failure, t_outcome>>
     \/ /\ driver' = None                              \* lines 87-92: raise
        /\ failure' = "driver"
        /\ t_pc' = "tool_raised"
        /\ t_outcome' = Raised(WebDriverException)
  /\ UNCHANGED <<environ, DUNE_API_KEY>>
  /\ UNCHANGED <<accVars, rqVars, served, slowServer, accObs, rqObs, paramVars>>

\* selenium_utils.py lines 95-125 and 147-149: get_queries_ids up to its loop
OpenPage ==
  /\ t_pc = "open_page"
  /\ IF driver = None                                   \* lines 101-103
       THEN t_pc' = "got_data" /\ UNCHANGED failure
       ELSE \/ t_pc' = "got_data" /\ failure' = "scrape" \* lines 147-149: return []
            \/ t_pc' = "got_data" /\ UNCHANGED failure   \* lines 118-120: no table
            \/ t_pc' = "links" /\ UNCHANGED failure      \* line 125
  /\ UNCHANGED <<environ, DUNE_API_KEY, driver, scanned, queries_ids, t_outcome>>
  /\ UNCHANGED <<accVars, rqVars, served, slowServer, accObs, rqObs, paramVars>>

\* selenium_utils.py lines 128-143: one title element
ProcessLink ==
  /\ t_pc = "links"
  /\ scanned < MaxLinks
  /\ scanned' = scanned + 1
  /\ \E link \in Links :
       queries_ids' = IF Appends(link) THEN Append(queries_ids, Entry(link))
                                      ELSE queries_ids
  /\ UNCHANGED <<t_pc, environ, DUNE_API_KEY, driver, failure, t_outcome>>
  /\ UNCHANGED <<accVars, rqVars, served, slowServer, accObs, rqObs, paramVars>>

\* selenium_utils.py line 145: return queries_ids
ReturnQueriesIds ==
  /\ t_pc = "links"
  /\ t_pc' = "got_data"
  /\ UNCHANGED <<environ, DUNE_API_KEY, driver, scanned, queries_ids, failure, t_outcome>>
  /\ UNCHANGED <<accVars, rqVars, served, slowServer, accObs, rqObs, paramVars>>

\* main.py line 75: _data[0].split('/')[-1], which a str has and a dict has not
SplitLast(first) ==
  IF first.type = "str" THEN Returned(Some(first.parts[Len(first.parts)]))
                        ELSE Raised(AttributeError)

\* main.py lines 73-80: what get_query_ids does with the list it got
get_query_ids ==
  /\ t_pc = "got_data"
  /\ IF queries_ids # <<>>                               \* line 74
       THEN LET r == SplitLast(queries_ids[1]) IN
            IF r.err = NoError
              THEN t_pc' = "tool_returned" /\ t_outcome' = r              \* line 76
              ELSE /\ t_pc' = "tool_raised"                               \* lines 79-80
                   /\ t_outcome' = Raised(Err("SeleniumError",
                          <<"Error getting query IDs: ">> \o r.err.msg))
       ELSE t_pc' = "tool_returned" /\ t_outcome' = Returned(None)          \* line 78
  /\ UNCHANGED <<environ, DUNE_API_KEY, driver, scanned, queries_ids, failure>>
  /\ UNCHANGED <<accVars, rqVars, served, slowServer, accObs, rqObs, paramVars>>

\* ---------------------------------------------------------------- request parameters
\* the arguments of a call: limit, offset and sample_count are None or a number,
\* columns, filters and sort_by None or a string, the two flags booleans
Args ==
  [columns : {None, Some(""), Some("a,b")},
   filters : {None, Some("x > 1")},
   sort_by : {None, Some("x desc")},
   limit : {None, Some(2)},
   offset : {None, Some(1)},
   sample_count : {None, Some(0), Some(5)},
   allow_partial_results : BOOLEAN,
   ignore_max_datapoints_per_request : BOOLEAN]

NoArgs ==
  [columns |-> None, filters |-> None, sort_by |-> None, limit |-> None, offset |-> None,
   sample_count |-> None, allow_partial_results |-> FALSE,
   ignore_max_datapoints_per_request |-> FALSE]

NoParams ==
  [columns |-> None, filters |-> None, sort_by |-> None, limit |-> None, offset |-> None,
   sample_count |-> None, allow_partial_results |-> None,
   ignore_max_datapoints_per_request |-> None]

\* Params testing sample_count for truth, as it tests the strings
Params_SampleCountIfTrue(lim, off, a) ==
  [limit |-> Some(lim),
   offset |-> Some(off),
   columns |-> IF Falsy(a.columns) THEN None ELSE a.columns,
   filters |-> IF Falsy(a.filters) THEN None ELSE a.filters,
   sort_by |-> IF Falsy(a.sort_by) THEN None ELSE a.sort_by,
   sample_count |-> IF a.sample_count = Some(0) THEN None ELSE a.sample_count,
   allow_partial_results |->
     IF a.allow_partial_results THEN Some("true") ELSE None,
   ignore_max_datapoints_per_request |->
     IF a.ignore_max_datapoints_per_request THEN Some("true") ELSE None]

\* run_query.py lines 90-105 and main.py lines 131-146: the params dict built from
\* the locals limit and offset and the other arguments; a key not set is None
Params(lim, off, a) ==
  [limit |-> Some(lim),                                                   \* line 91
   offset |-> Some(off),                                                  \* line 92
   columns |-> IF Falsy(a.columns) THEN None ELSE a.columns,              \* lines 94-95
   filters |-> IF Falsy(a.filters) THEN None ELSE a.filters,              \* lines 96-97
   sort_by |-> IF Falsy(a.sort_by) THEN None ELSE a.sort_by,              \* lines 98-99
   sample_count |-> a.sample_count,                                       \* lines 100-101
   allow_partial_results |->                                              \* lines 102-103
     IF a.allow_partial_results THEN Some("true") ELSE None,
   ignore_max_datapoints_per_request |->                                  \* lines 104-105
     IF a.ignore_max_datapoints_per_request THEN Some("true") ELSE None]

\* run_query.py lines 52-58 and 90-109: the first results request of a run_query call
RunQueryRequest ==
  /\ p_pc = "call"
  /\ p_params' = Params(Default(p_args.limit, RunnerDefaultLimit),
                        Default(p_args.offset, RunnerDefaultOffset), p_args)
  /\ p_pc' = "sent_by_run_query"
  /\ UNCHANGED p_args
  /\ UNCHANGED <<accVars, rqVars, served, slowServer, accObs, rqObs, toolVars>>

\* main.py lines 118-150: the first existing-results request of an accessor call
AccessorRequest ==
  /\ p_pc = "call"
  /\ p_params' = Params(Default(p_args.limit, AccessorDefaultLimit),
                        Default(p_args.offset, AccessorDefaultOffset), p_args)
  /\ p_pc' = "sent_by_accessor"
  /\ UNCHANGED p_args
  /\ UNCHANGED <<accVars, rqVars, served, slowServer, accObs, rqObs, toolVars>>

\* ---------------------------------------------------------------- calls
\* a direct call run_query(query_id, limit=limArg, offset=offArg); a server that
\* lets executions be seen EXECUTING or PENDING is explored with the default arguments
InitRunQuery ==
  \E call \in Calls, slow \in BOOLEAN :
    LET e == RunQueryEntry(call[1], call[2]) IN
    /\ slow => call = <<None, None>>
    /\ slowServer = slow
    /\ pc = "submit"
    /\ retry_count = e.retry_count
    /\ last_error = e.last_error
    /\ limit = e.limit
    /\ offset = e.offset
    /\ all_results = e.all_results
    /\ has_more_results = e.has_more_results
    /\ initialOffset = e.offset
    /\ a_pc = "off"
    /\ a_limit = 0
    /\ a_offset = 0

\* main.py lines 117-127: a call get_latest_result_by_query_id(query_id, limit=limArg,
\* offset=offArg)
InitAccessor ==
  \E call \in Calls :
    /\ slowServer = FALSE
    /\ a_pc = "fetch"
    /\ a_limit = Default(call[1], AccessorDefaultLimit)
    /\ a_offset = Default(call[2], AccessorDefaultOffset)
    /\ pc = "idle"
    /\ retry_count = 0
    /\ last_error = NoError
    /\ limit = 0
    /\ offset = 0
    /\ all_results = <<>>
    /\ has_more_results = TRUE
    /\ initialOffset = 0

Init ==
  /\ InitRunQuery \/ InitAccessor
  /\ a_all_results = <<>>
  /\ via = "none"
  /\ a_outcome = NoOutcome
  /\ execution_id = 0
  /\ poll_count = 0
  /\ outcome = NoOutcome
  /\ served = 0
  /\ a_fetches = 0 /\ runnerCalls = 0 /\ cached = <<>> /\ data = NoData
  /\ submissions = 0 /\ checks = 0 /\ nonTerminal = 0 /\ pollSleeps = 0
  /\ pollSlept = 0 /\ retrySleeps = 0 /\ endState = ""
  /\ attemptErr = NoError
  /\ lastCheck = 0
  /\ lastFetch = NoFetch
  /\ attemptBase = 0
  /\ sustainedEmpty = TRUE
  \* the modules are loaded with a key set in the environment
  /\ t_pc = "off" /\ environ = Some("key") /\ DUNE_API_KEY = Some("key")
  /\ driver = None /\ scanned = 0 /\ queries_ids = <<>> /\ failure = "none"
  /\ t_outcome = NoOutcome
  /\ p_pc = "off" /\ p_args = NoArgs /\ p_params = NoParams

Next ==
  Submit \/ CheckStatus \/ FetchResults \/ GetResults \/ HandlePage \/ AfterRunQuery

Spec == Init /\ [][Next]_vars

\* the start of the process: main.py is about to be imported, then serves one
\* get_query_ids call; neither run_query nor the accessor is running
InitTools ==
  /\ t_pc = "load_config"
  /\ environ \in Environs
  /\ DUNE_API_KEY = None
  /\ driver = None /\ scanned = 0 /\ queries_ids = <<>> /\ failure = "none"
  /\ t_outcome = NoOutcome
  /\ p_pc = "off" /\ p_args = NoArgs /\ p_params = NoParams
  /\ a_pc = "off" /\ a_limit = 0 /\ a_offset = 0 /\ a_all_results = <<>>
  /\ via = "none" /\ a_outcome = NoOutcome
  /\ pc = "idle" /\ retry_count = 0 /\ last_error = NoError /\ limit = 0 /\ offset = 0
  /\ all_results = <<>> /\ has_more_results = TRUE /\ execution_id = 0
  /\ poll_count = 0 /\ outcome = NoOutcome
  /\ served = 0 /\ slowServer = FALSE
  /\ a_fetches = 0 /\ runnerCalls = 0 /\ cached = <<>> /\ data = NoData
  /\ submissions = 0 /\ checks = 0 /\ nonTerminal = 0 /\ pollSleeps = 0
  /\ pollSlept = 0 /\ retrySleeps = 0 /\ endState = ""
  /\ attemptErr = NoError /\ lastCheck = 0 /\ lastFetch = NoFetch /\ attemptBase = 0
  /\ initialOffset = 0 /\ sustainedEmpty = TRUE

NextTools ==
  \/ LoadConfig \/ CheckKeyRunQuery \/ CheckKeyMain
  \/ set_driver \/ OpenPage \/ ProcessLink \/ ReturnQueriesIds \/ get_query_ids

SpecTools == InitTools /\ [][NextTools]_vars

\* a call of run_query or of the accessor with any of the argument combinations,
\* followed up to its first results request
InitParams ==
  /\ p_pc = "call"
  /\ p_args \in Args
  /\ p_params = NoParams
  /\ t_pc = "off" /\ environ = Some("key") /\ DUNE_API_KEY = Some("key")
  /\ driver = None /\ scanned = 0 /\ queries_ids = <<>> /\ failure = "none"
  /\ t_outcome = NoOutcome
  /\ a_pc = "off" /\ a_limit = 0 /\ a_offset = 0 /\ a_all_results = <<>>
  /\ via = "none" /\ a_outcome = NoOutcome
  /\ pc = "idle" /\ retry_count = 0 /\ last_error = NoError /\ limit = 0 /\ offset = 0
  /\ all_results = <<>> /\ has_more_results = TRUE /\ execution_id = 0
  /\ poll_count = 0 /\ outcome = NoOutcome
  /\ served = 0 /\ slowServer = FALSE
  /\ a_fetches = 0 /\ runnerCalls = 0 /\ cached = <<>> /\ data = NoData
  /\ submissions = 0 /\ checks = 0 /\ nonTerminal = 0 /\ pollSleeps = 0
  /\ pollSlept = 0 /\ retrySleeps = 0 /\ endState = ""
  /\ attemptErr = NoError /\ lastCheck = 0 /\ lastFetch = NoFetch /\ attemptBase = 0
  /\ initialOffset = 0 /\ sustainedEmpty = TRUE

NextParams == RunQueryRequest \/ AccessorRequest

SpecParams == InitParams /\ [][NextParams]_vars

\* ---------------------------------------------------------------- properties
RunQueryOver == pc \in {"returned", "raised"}

\* C1: if every execution completes and its first results page has zero rows,
\* run_query submits exactly MAX_RETRIES times and then raises NoDataError.
C1_SustainedNoDataRaises ==
  (RunQueryOver /\ sustainedEmpty) =>
    (pc = "raised" /\ outcome.err.kind = "NoDataError" /\ submissions = MAX_RETRIES)

\* C2: when the existing-results lookup answers 404 and run_query then returns rows,
\* the accessor returns exactly those rows and sends no further existing-results
\* request.
C2_NotFoundReturnsRunnerRows ==
  [][(a_pc = "in_run_query" /\ via = "404" /\ pc = "returned") =>
       (a_pc' = "returned" /\ a_outcome' = outcome /\ a_fetches' = a_fetches)]_vars

\* the age of the body under consideration
Age(d) == d.now - d.ts.t
Disjoint(rows, others) ==
  \A i \in 1..Len(rows) : \A j \in 1..Len(others) : rows[i] # others[j]

\* C3: a page whose execution_started_at is at least STALE_DATA_THRESHOLD hours old
\* makes the accessor call run_query, and what the accessor returns is what that
\* call returned, with none of the rows of the existing-results pages in it.
C3_StaleDelegates ==
  [][/\ (a_pc = "page" /\ Parses(data.ts) /\ Age(data) >= Hours(STALE_DATA_THRESHOLD)) =>
          (a_pc' = "in_run_query" /\ via' = "stale" /\ pc' = "submit"
             /\ runnerCalls' = runnerCalls + 1 /\ a_all_results' = a_all_results)
     /\ (a_pc = "in_run_query" /\ via = "stale" /\ pc = "returned") =>
          (a_pc' = "returned" /\ a_outcome' = outcome
             /\ Disjoint(a_outcome'.rows, cached))]_vars

C3_Witness ==
  /\ a_pc = "returned" /\ via = "stale" /\ a_fetches = 1
  /\ cached # <<>> /\ a_outcome.rows # <<>>

\* C4: a page with a timestamp is accepted exactly when its rows are non-empty and
\* now minus execution_started_at is strictly less than the threshold; in every
\* other case (an empty page of any age, an age equal to the threshold) it is
\* stale and run_query is called.  Nothing else enters the decision.
C4_StalenessDecision ==
  [][(a_pc = "page" /\ Parses(data.ts)) =>
       IF data.rows # <<>> /\ Age(data) < Hours(STALE_DATA_THRESHOLD)
         THEN /\ a_pc' \in {"fetch", "returned"}
              /\ a_all_results' = a_all_results \o data.rows
              /\ runnerCalls' = runnerCalls
         ELSE /\ a_pc' = "in_run_query" /\ via' = "stale"
              /\ runnerCalls' = runnerCalls + 1]_vars

C4_Witness ==
  /\ a_pc = "in_run_query" /\ via = "stale" /\ pc = "submit" /\ submissions = 0
  /\ Len(cached) = 2 /\ a_all_results = <<>> /\ a_limit = 2

\* C5: a page without execution_started_at makes the accessor call run_query and
\* return what it returned, whatever rows the page holds.
C5_NoTimestampDelegates ==
  [][/\ (a_pc = "page" /\ data.ts = TsMissing) =>
          (a_pc' = "in_run_query" /\ via' = "no_timestamp" /\ pc' = "submit"
             /\ runnerCalls' = runnerCalls + 1)
     /\ (a_pc = "in_run_query" /\ via = "no_timestamp" /\ pc = "returned") =>
          (a_pc' = "returned" /\ a_outcome' = outcome)]_vars

C5_Witness ==
  /\ a_pc = "returned" /\ via = "no_timestamp" /\ a_fetches = 1
  /\ Len(cached) = 1 /\ Len(a_outcome.rows) = 2

Fresh(d) ==
  Parses(d.ts) /\ d.rows # <<>> /\ Age(d) < Hours(STALE_DATA_THRESHOLD)

\* C6: over fresh, non-empty pages the accessor requests another page only after a
\* page of at least limit rows that has a next_offset, which becomes the offset;
\* at the first page that is short or has no next_offset it returns, without a
\* further request, the rows of all pages received, in the order received.
C6_PagesConcatenated ==
  [][/\ (a_pc = "page" /\ a_pc' = "fetch") =>
          (/\ data.next # None /\ Len(data.rows) >= a_limit
           /\ a_offset' = data.next[1]
           /\ a_all_results' = a_all_results \o data.rows)
     /\ (a_pc = "page" /\ Fresh(data) /\ (data.next = None \/ Len(data.rows) < a_limit)) =>
          (a_pc' = "returned" /\ a_outcome' = Returned(cached) /\ a_fetches' = a_fetches)
     /\ (a_pc = "returned" => a_fetches' = a_fetches)]_vars

C6_Witness ==
  /\ a_pc = "returned" /\ via = "none" /\ a_fetches = 2
  /\ a_outcome.rows = <<1, 2, 3>>

\* whether the page just answered calls for another page, as C7 words it
MorePages(f, lim) == f.next # None /\ f.n >= lim

\* C7 as stated: after a results page of a completed execution run_query requests
\* another page iff the page supplied a next_offset and had at least limit rows, the
\* next request using that next_offset; otherwise it returns the accumulated rows.
C7_PagingAsStated ==
  [][(pc = "fetch" /\ lastFetch'.answered) =>
       /\ all_results' = all_results \o RowsFrom(served, lastFetch'.n)
       /\ lastFetch.answered => lastFetch'.offset = lastFetch.next[1]
       /\ IF MorePages(lastFetch', limit)
            THEN pc' = "fetch" /\ offset' = lastFetch'.next[1]
            ELSE pc' = "returned" /\ outcome' = Returned(all_results')]_vars

\* C7 amended: as C7, except that an empty page received while nothing has been
\* accumulated fails the attempt with NoDataError instead of returning.
C7_Paging ==
  [][(pc = "fetch" /\ lastFetch'.answered) =>
       /\ all_results' = all_results \o RowsFrom(served, lastFetch'.n)
       /\ lastFetch.answered => lastFetch'.offset = lastFetch.next[1]
       /\ IF MorePages(lastFetch', limit)
            THEN pc' = "fetch" /\ offset' = lastFetch'.next[1]
            ELSE IF lastFetch'.n = 0 /\ all_results = <<>>
              THEN attemptErr'.kind = "NoDataError" /\ pc' \in {"submit", "raised"}
              ELSE pc' = "returned" /\ outcome' = Returned(all_results')]_vars

C7_Witness ==
  /\ a_pc = "off" /\ pc = "returned" /\ outcome.rows = <<1, 2, 3>>
  /\ lastFetch.offset = 2 /\ lastFetch.n = 1

\* C8: an execution answered EXECUTING or PENDING at every status check gets exactly
\* MAX_POLL_ATTEMPTS checks and as many sleeps of POLL_INTERVAL, and the attempt
\* then fails with QueryTimeoutError; it does not fail before.
C8_TimeoutAfterMaxPolls ==
  /\ pc = "poll" => (checks = nonTerminal /\ checks < MAX_POLL_ATTEMPTS)
  /\ (checks > 0 /\ nonTerminal = checks /\ pc # "poll") =>
       /\ checks = MAX_POLL_ATTEMPTS
       /\ pollSleeps = MAX_POLL_ATTEMPTS
       /\ pollSlept = MAX_POLL_ATTEMPTS * POLL_INTERVAL
       /\ attemptErr = Err("QueryTimeoutError", ERROR_MESSAGES("timeout", NoneStr))
       /\ pc \in {"submit", "raised"}

C8_Witness ==
  /\ pc = "submit" /\ attemptErr.kind = "QueryTimeoutError"
  /\ checks = 60 /\ pollSleeps = 60 /\ pollSlept = 300

\* C9: an execution answered COMPLETED at its N-th status check, after N-1
\* non-terminal answers, goes on to request its results after exactly N checks
\* and N-1 sleeps.
C9_CompletedProceedsToFetch ==
  endState = COMPLETED =>
    /\ checks = nonTerminal + 1 /\ checks <= MAX_POLL_ATTEMPTS
    /\ pollSleeps = nonTerminal
    /\ pc = "fetch" \/ lastFetch # NoFetch

\* C10: when the attempts fail with QueryExecutionError, QueryTimeoutError or
\* NoDataError, run_query makes exactly MAX_RETRIES attempts and then raises the
\* error of the last attempt, the same in kind and message.
C10_LastErrorReraised ==
  /\ pc = "submit" => (retry_count < MAX_RETRIES /\ submissions = retry_count)
  /\ (pc = "raised" /\ attemptErr.kind \in RetriedKinds) =>
       (submissions = MAX_RETRIES /\ outcome = Raised(attemptErr))

C10_Witness ==
  /\ pc = "raised" /\ attemptErr.kind = "NoDataError" /\ submissions = MAX_RETRIES
  /\ outcome.err.kind = "NoDataError"

\* C11: a submission answered without execution_id makes run_query fail at once:
\* the error reaches the caller and no further submission is made.
C11_NoExecutionIdFailsAtOnce ==
  attemptErr = Err("QueryExecutionError", ERROR_MESSAGES("no_execution_id", NoneStr)) =>
    (pc = "raised" /\ outcome = Raised(attemptErr))

\* C12: an exception that is neither of the three retried kinds nor a transport
\* error ends run_query in the attempt where it is raised: run_query raises
\* QueryExecutionError with the original message after its prefix, without a retry
\* sleep, and no submission, status check or sleep follows.
C12_UnexpectedErrorAborts ==
  [][/\ attemptErr'.kind = "ValueError" =>
          /\ pc' = "raised"
          /\ outcome' = Raised(Err("QueryExecutionError",
                                   <<"Error processing query: ">> \o attemptErr'.msg))
     /\ (attemptErr.kind # "ValueError" /\ attemptErr'.kind = "ValueError") =>
          (retry_count' = retry_count /\ retrySleeps' = retrySleeps
             /\ pollSleeps' <= pollSleeps)
     /\ attemptErr.kind = "ValueError" =>
          (pc' = "idle" \/ UNCHANGED <<submissions, checks, pollSleeps, retrySleeps>>)]_vars

C12_Witness ==
  /\ a_pc = "off" /\ pc = "raised" /\ attemptErr = ValueError /\ submissions = 2
  /\ checks = 1 /\ outcome.err.kind = "QueryExecutionError"

\* the step is a request of run_query that raised a transport error
TransportFailed ==
  /\ attemptErr' = HTTPError
  /\ CASE pc = "submit" -> pc' # "poll"
       [] pc = "poll" -> checks' = checks + 1 /\ endState' = "" /\ nonTerminal' = nonTerminal
       [] pc = "fetch" -> ~lastFetch'.answered
       [] OTHER -> FALSE

\* C13: a transport error at the submission, a status check or a results request
\* counts as one attempt and is retried after a sleep like the retried kinds; when
\* it is the failure of the last attempt run_query raises the QueryExecutionError
\* that wraps it.
C13_TransportErrorRetried ==
  [][TransportFailed =>
       /\ retry_count' = retry_count + 1
       /\ submissions' = retry_count'
       /\ IF retry_count' < MAX_RETRIES
            THEN pc' = "submit" /\ retrySleeps' = retrySleeps + 1
            ELSE /\ pc' = "raised"
                 /\ outcome' = Raised(Err("QueryExecutionError",
                        <<"HTTP error running query: ">> \o HTTPError.msg))]_vars

C13_Witness ==
  /\ pc = "raised" /\ attemptErr = HTTPError /\ submissions = MAX_RETRIES
  /\ lastFetch # NoFetch /\ outcome.err.kind = "QueryExecutionError"

\* C14: a normal return of run_query carries the pages of one execution, that of
\* the final attempt, read from the offset the call started with: exactly the rows
\* the server sent for that execution, in order, and none sent for an earlier one.
C14_ReturnsFinalExecutionOnly ==
  /\ (pc = "fetch" /\ lastFetch = NoFetch) => offset = initialOffset
  /\ pc = "returned" => outcome.rows = RowsFrom(attemptBase, served - attemptBase)

\* C15: run_query never returns an empty sequence of rows.
C15_NeverReturnsEmpty ==
  pc = "returned" => outcome.rows # <<>>

\* C16: when run_query, called by the accessor, ends with NoDataError or
\* QueryTimeoutError, the accessor raises an error of that same kind.
C16_RunnerErrorKindKept ==
  [][(a_pc = "in_run_query" /\ pc = "raised"
        /\ outcome.err.kind \in {"NoDataError", "QueryTimeoutError"}) =>
       (a_pc' = "raised" /\ a_outcome'.err.kind = outcome.err.kind)]_vars

\* C17: once the accessor has accepted its first page, a later page that is empty,
\* stale or without execution_started_at does not make it call run_query.
C17_ChecksOnFirstPageOnly ==
  [][(a_pc = "page" /\ a_all_results # <<>>) => runnerCalls' = runnerCalls]_vars

\* C18: one call of the accessor calls run_query at most once.
C18_RunnerInvokedAtMostOnce ==
  runnerCalls <= 1

\* the process is past the module-level checks of the key
Loaded == t_pc \notin {"off", "load_config", "check_run_query", "check_main", "load_failed"}

\* C19: with no key in the environment, loading the modules fails with
\* DuneAPIKeyError, and the header of no request carries a key other than the
\* environment's.
C19_MissingKeyFailsLoad ==
  /\ (environ = None /\ t_pc \notin {"off", "load_config", "check_run_query"}) =>
       (t_pc = "load_failed" /\ t_outcome.err.kind = "DuneAPIKeyError")
  /\ Loaded => HEADERS.X_Dune_API_Key = environ

\* the query ids of the entries scraped, in order
IdsFound == [i \in 1..Len(queries_ids) |-> queries_ids[i].query_id]
ToolOver == t_pc \in {"tool_returned", "tool_raised"}

\* C20: get_query_ids returns the ids found when the scrape finds links, raises
\* SeleniumError when the driver setup or the scrape fails, and raises it in no
\* other case.
C20_LookupAsSpecified ==
  ToolOver =>
    /\ (failure = "none" /\ queries_ids # <<>>) =>
         (t_pc = "tool_returned" /\ t_outcome.rows = Some(IdsFound))
    /\ failure # "none" =>
         (t_pc = "tool_raised" /\ t_outcome.err.kind = "SeleniumError")
    /\ (t_pc = "tool_raised" /\ t_outcome.err.kind = "SeleniumError") => failure # "none"

\* C21: once a status check has answered COMPLETED, FAILED, CANCELLED or ERROR no
\* further status check of that execution is sent; on FAILED, CANCELLED and ERROR
\* the attempt ends at that check, without a sleep of the poll loop, in a
\* QueryExecutionError whose message names the state.
C21_TerminalEndsPolling ==
  [][/\ (pc = "poll" /\ endState' \in {"QUERY_STATE_FAILED", "QUERY_STATE_CANCELLED",
                                       "QUERY_STATE_ERROR"}) =>
          /\ pollSleeps' = pollSleeps /\ pollSlept' = pollSlept
          /\ attemptErr' = Err("QueryExecutionError",
                               <<"Query execution failed with state: ", endState'>>)
          /\ pc' \in {"submit", "raised"}
     /\ (pc = "poll" /\ endState' = "QUERY_STATE_COMPLETED") =>
          (pc' # "poll" /\ pollSleeps' = pollSleeps)
     /\ endState \in {"QUERY_STATE_COMPLETED", "QUERY_STATE_FAILED",
                       "QUERY_STATE_CANCELLED", "QUERY_STATE_ERROR"} =>
          checks' <= checks]_vars

C21_Witness ==
  /\ pc = "submit" /\ endState = "QUERY_STATE_CANCELLED" /\ checks = 2 /\ pollSleeps = 1
  /\ attemptErr.msg = <<"Query execution failed with state: ", "QUERY_STATE_CANCELLED">>

\* C22: a status answer whose state is none of the six known ones, or is missing,
\* ends the polling of that execution at that check: no sleep and no further
\* status check follow, and the attempt fails with a QueryExecutionError that
\* reports the unknown state.
C22_UnknownStateEndsPolling ==
  [][/\ (pc = "poll" /\ endState' \in {"QUERY_STATE_EXPIRED", "None"}) =>
          /\ pollSleeps' = pollSleeps /\ pollSlept' = pollSlept
          /\ attemptErr' = Err("QueryExecutionError",
                               <<"Unknown query state: ", endState'>>)
          /\ pc' \in {"submit", "raised"}
     /\ endState \in {"QUERY_STATE_EXPIRED", "None"} => checks' <= checks]_vars

C22_Witness ==
  /\ pc = "submit" /\ endState = "None" /\ checks = 2 /\ pollSleeps = 1
  /\ attemptErr.msg = <<"Unknown query state: ", "None">>

\* C23: every attempt of run_query begins with a new submission, and each status
\* request and results request of the attempt names the handle that submission
\* returned (the handle of the k-th submission of a call being k); the handle of
\* an earlier attempt is never named again.
C23_HandleOfOwnSubmission ==
  /\ pc \in {"poll", "fetch"} => (submissions = retry_count + 1 /\ execution_id = submissions)
  /\ checks > 0 => lastCheck = submissions
  /\ lastFetch # NoFetch => lastFetch.eid = submissions

C23_Witness ==
  /\ pc = "returned" /\ submissions = 3 /\ retry_count = 2 /\ lastCheck = 3
  /\ lastFetch.eid = 3 /\ lastFetch.answered

\* C24: while an execution is polled, every EXECUTING or PENDING answer is followed
\* by exactly one sleep of POLL_INTERVAL and adds one to poll_count, so that checks
\* and sleeps alternate; such a check changes neither the accumulated rows nor the
\* offset, nor, while the polling goes on, the retry count.
C24_PollLoopAlternates ==
  [][/\ pc = "poll" => (pollSleeps = checks /\ poll_count = checks
                          /\ pollSlept = checks * POLL_INTERVAL)
     /\ (pc = "poll" /\ nonTerminal' = nonTerminal + 1) =>
          /\ pollSleeps' = pollSleeps + 1
          /\ pollSlept' = pollSlept + POLL_INTERVAL
          /\ poll_count' = poll_count + 1
          /\ UNCHANGED <<all_results, offset, has_more_results, limit, execution_id>>
          /\ pc' = "poll" => UNCHANGED <<retry_count, last_error>>]_vars

C24_Witness ==
  /\ pc = "poll" /\ checks = 3 /\ pollSleeps = 3 /\ poll_count = 3 /\ pollSlept = 15
  /\ retry_count = 1

\* C28: one run_query call submits at most MAX_RETRIES times and checks the status
\* of one execution at most MAX_POLL_ATTEMPTS times; every failed attempt but the
\* last is followed by exactly one sleep before the next submission, and the last
\* failed attempt by none.
C28_BudgetsAndRetrySleeps ==
  /\ submissions <= MAX_RETRIES /\ checks <= MAX_POLL_ATTEMPTS
  /\ pc \in {"submit", "poll", "fetch"} => retrySleeps = retry_count
  /\ (pc = "raised" /\ retry_count = MAX_RETRIES) => retrySleeps = MAX_RETRIES - 1
  /\ retrySleeps <= retry_count

C28_Witness ==
  /\ pc = "raised" /\ retry_count = MAX_RETRIES /\ submissions = MAX_RETRIES
  /\ retrySleeps = MAX_RETRIES - 1 /\ checks = MAX_POLL_ATTEMPTS

C27_EveryPassTakesAPage ==
  [][(a_pc \in {"page", "in_run_query"} /\ a_pc' = "fetch") =>
       Len(a_all_results') > Len(a_all_results)]_vars

\* every row of rows is a row of from
OnlyFrom(rows, from) ==
  \A i \in 1..Len(rows) : \E j \in 1..Len(from) : rows[i] = from[j]

\* C29: what the accessor returns is either made up of rows of existing-results
\* pages only, or exactly what one run_query call returned; it never mixes the two.
C29_NeverMixesCachedAndRunnerRows ==
  [][(a_pc # "returned" /\ a_pc' = "returned") =>
       \/ a_pc = "page" /\ a_outcome' = Returned(a_all_results')
                        /\ OnlyFrom(a_outcome'.rows, cached)
       \/ a_pc = "in_run_query" /\ a_outcome' = outcome
                                /\ Disjoint(a_outcome'.rows, cached)]_vars

C29_Witness ==
  /\ a_pc = "returned" /\ via = "stale" /\ a_all_results = <<1, 2>> /\ cached = <<1, 2>>
  /\ a_outcome.rows = <<3>>

====
